---- MODULE Spec2Model ----
(***************************************************************************)
(* Xor filters (xorfilter.h): the 8-bit and the 16-bit filter, their       *)
(* allocation, construction by peeling with retry, query and release.      *)
(*                                                                         *)
(* A uint64_t is a tuple of 8 bytes, least significant first, so that the  *)
(* hash kernel is computed with the wrapping 64-bit arithmetic of the      *)
(* code.  Small quantities (block lengths, slot indices, cells, counts)    *)
(* are integers; they are converted to words where the code mixes them     *)
(* with 64-bit values.                                                     *)
(***************************************************************************)
EXTENDS Integers, Sequences, FiniteSets, TLC

(***************************************************************************)
(* Bounds of the model.                                                    *)
(***************************************************************************)
\* largest element count handed to allocate
MaxSize == 2
\* longest key array handed to populate
MaxKeys == 2
\* construction attempts (seeds drawn) followed within one populate call
MaxAttempts == 3
\* populate calls followed within one behaviour
MaxCalls == 2
\* largest element count of the size-law specification
MaxCount == 24

\* threads that query a filter at the same time
MaxReaders == 2

\* the largest element count of the filters whose peeling is followed
MaxPeelSize == 3

\* the keys 0..MaxProbe are hashed to try the slot indices
MaxProbe == 7

(***************************************************************************)
(* 64-bit words.                                                           *)
(***************************************************************************)
Word0 == <<0, 0, 0, 0, 0, 0, 0, 0>>

\* the word of a small non-negative integer (below 2^31)
ToWord(n) == [i \in 1..8 |-> IF i <= 4 THEN (n \div (2 ^ (8 * (i - 1)))) % 256 ELSE 0]

\* the integer of a word known to be below 2^31
FromWord(w) == w[1] + 256 * w[2] + 65536 * w[3] + 16777216 * w[4]

BitOf(x, i) == (x \div (2 ^ i)) % 2

XorByte(x, y) ==
    ((BitOf(x, 0) + BitOf(y, 0)) % 2)
  + ((BitOf(x, 1) + BitOf(y, 1)) % 2) * 2
  + ((BitOf(x, 2) + BitOf(y, 2)) % 2) * 4
  + ((BitOf(x, 3) + BitOf(y, 3)) % 2) * 8
  + ((BitOf(x, 4) + BitOf(y, 4)) % 2) * 16
  + ((BitOf(x, 5) + BitOf(y, 5)) % 2) * 32
  + ((BitOf(x, 6) + BitOf(y, 6)) % 2) * 64
  + ((BitOf(x, 7) + BitOf(y, 7)) % 2) * 128

OrBit(a, b) == IF a + b > 0 THEN 1 ELSE 0

OrByte(x, y) ==
    OrBit(BitOf(x, 0), BitOf(y, 0))
  + OrBit(BitOf(x, 1), BitOf(y, 1)) * 2
  + OrBit(BitOf(x, 2), BitOf(y, 2)) * 4
  + OrBit(BitOf(x, 3), BitOf(y, 3)) * 8
  + OrBit(BitOf(x, 4), BitOf(y, 4)) * 16
  + OrBit(BitOf(x, 5), BitOf(y, 5)) * 32
  + OrBit(BitOf(x, 6), BitOf(y, 6)) * 64
  + OrBit(BitOf(x, 7), BitOf(y, 7)) * 128

XorTab == [x \in 0..255 |-> [y \in 0..255 |-> XorByte(x, y)]]

OrTab == [x \in 0..255 |-> [y \in 0..255 |-> OrByte(x, y)]]

\* a ^ b
Xor64(a, b) == [i \in 1..8 |-> XorTab[a[i]][b[i]]]

\* a | b
Or64(a, b) == [i \in 1..8 |-> OrTab[a[i]][b[i]]]

\* carry the column sums c[1..8] into bytes, dropping the carry out of bit 63
Propagate(c) ==
    LET t1 == c[1]
        t2 == c[2] + (t1 \div 256)
        t3 == c[3] + (t2 \div 256)
        t4 == c[4] + (t3 \div 256)
        t5 == c[5] + (t4 \div 256)
        t6 == c[6] + (t5 \div 256)
        t7 == c[7] + (t6 \div 256)
        t8 == c[8] + (t7 \div 256)
    IN  <<t1 % 256, t2 % 256, t3 % 256, t4 % 256,
          t5 % 256, t6 % 256, t7 % 256, t8 % 256>>

\* a + b modulo 2^64
Add64(a, b) == Propagate([i \in 1..8 |-> a[i] + b[i]])

RECURSIVE MulColumn(_, _, _, _)
MulColumn(a, b, k, i) ==
    IF i > k THEN 0 ELSE a[i] * b[k + 1 - i] + MulColumn(a, b, k, i + 1)

\* a * b modulo 2^64
Mul64(a, b) == Propagate([k \in 1..8 |-> MulColumn(a, b, k, 1)])

Limb(a, j) == IF j >= 1 /\ j <= 8 THEN a[j] ELSE 0

\* a >> s, 0 <= s <= 63
Shr64(a, s) ==
    LET q == s \div 8
        r == s % 8
    IN  [i \in 1..8 |->
            (Limb(a, i + q) \div (2 ^ r))
          + (Limb(a, i + q + 1) % (2 ^ r)) * (2 ^ (8 - r))]

\* a << s modulo 2^64, 0 <= s <= 63
Shl64(a, s) ==
    LET q == s \div 8
        r == s % 8
    IN  [i \in 1..8 |->
            ((Limb(a, i - q) * (2 ^ r)) % 256)
          + (Limb(a, i - q - 1) \div (2 ^ (8 - r)))]

\* (uint32_t) a
Low32(a) == [i \in 1..8 |-> IF i <= 4 THEN a[i] ELSE 0]

\* (uint8_t) a and (uint16_t) a, as the integer a cell holds
Trunc(W, a) == IF W = 8 THEN a[1] ELSE a[1] + 256 * a[2]

(***************************************************************************)
(* The hash kernel.                                                        *)
(***************************************************************************)
xor_murmur64(h) ==
    LET h1 == Xor64(h, Shr64(h, 33))
        h2 == Mul64(h1, <<205, 140, 85, 237, 215, 175, 81, 255>>)
        h3 == Xor64(h2, Shr64(h2, 33))
        h4 == Mul64(h3, <<83, 236, 133, 26, 254, 185, 206, 196>>)
    IN  Xor64(h4, Shr64(h4, 33))

xor_mix_split(key, seed) == xor_murmur64(Add64(key, seed))

\* (-c) & 63 of an unsigned c is (64 - c) % 64
xor_rotl64(n, c) == Or64(Shl64(n, c % 64), Shr64(n, (64 - c) % 64))

\* hash and n are 32-bit values; the product is formed in 64 bits
xor_reduce(hash, n) == Low32(Shr64(Mul64(hash, n), 32))

xor_fingerprint(hash) == Xor64(hash, Shr64(hash, 32))

\* the new counter and the number drawn
xor_rng_splitmix64(seed) ==
    LET c  == Add64(seed, <<21, 124, 74, 127, 185, 121, 55, 158>>)
        z1 == Mul64(Xor64(c, Shr64(c, 30)), <<185, 229, 228, 28, 109, 71, 88, 191>>)
        z2 == Mul64(Xor64(z1, Shr64(z1, 27)), <<235, 17, 49, 19, 187, 73, 208, 148>>)
    IN  [counter |-> c, value |-> Xor64(z2, Shr64(z2, 31))]

(***************************************************************************)
(* The filters.  W is the cell width, 8 for xor8_t and 16 for xor16_t.     *)
(* An array of the C code is a sequence: the element at C index i is       *)
(* element i + 1 of the sequence.                                          *)
(***************************************************************************)
Widths == {8, 16}

\* the null pointer of a cell array: no block (every block has 30 cells or more)
NULL == << >>

At(a, i) == a[i + 1]

\* bytes of a cell and of the filter struct (two uint64_t and a pointer, LP64)
CellBytes(W) == W \div 8

SizeofFilter == 24

\* the keys the callers of the model use, and one key they never insert
KeyPool == {93, 1640}

QueryKeys == KeyPool \cup {1}

KeyArrays == UNION {[1..n -> KeyPool] : n \in 0..MaxKeys}

Distinct(keys) == \A i, j \in 1..Len(keys) : i # j => keys[i] # keys[j]

\* what malloc'd cells may hold before they are written: the block is not
\* zeroed, so the contents are whatever an earlier owner left there
Patterns == {"zero", "ramp", "fill"}

GarbageCell(W, g, i) ==
    CASE g = "zero" -> 0
      [] g = "ramp" -> IF W = 8 THEN (37 * i + 1) % 256
                       ELSE ((37 * i + 1) % 256) + 256 * ((11 * i + 3) % 256)
      [] g = "fill" -> IF W = 8 THEN 255 ELSE 42405

\* malloc(n cells): NULL, or a block of n cells with indeterminate contents
Malloc(W, ok, g, n) ==
    IF ok THEN [i \in 1..n |-> GarbageCell(W, g, i - 1)] ELSE NULL

\* free(p): p is NULL, a live block or a block already freed
Release(p) ==
    CASE p = "NULL" -> "NULL"
      [] p = "live" -> "freed"
      [] OTHER -> "doublefree"

\* size_t capacity = 32 + 1.23 * size: the double product truncated toward
\* zero.  The double nearest 1.23 is off by less than 2^-55 relatively, so for
\* the sizes of the model the truncation is that of the exact (3200+123n)/100.
Capacity(size) == (3200 + 123 * size) \div 100

\* xor8_allocate without line 113: the capacity is not cut to a multiple of 3
xor8_allocate_noround(size, filter, ok, g) ==
    LET capacity == Capacity(size)
        p == Malloc(8, ok, g, capacity)
    IN  IF p # NULL
        THEN [filter |-> [filter EXCEPT !.fingerprints = p,
                                        !.blockLength = capacity \div 3],
              ret |-> TRUE]
        ELSE [filter |-> [filter EXCEPT !.fingerprints = p], ret |-> FALSE]

xor8_allocate(size, filter, ok, g) ==
    LET capacity == (Capacity(size) \div 3) * 3
        p == Malloc(8, ok, g, capacity)
    IN  IF p # NULL
        THEN [filter |-> [filter EXCEPT !.fingerprints = p,
                                        !.blockLength = capacity \div 3],
              ret |-> TRUE]
        ELSE [filter |-> [filter EXCEPT !.fingerprints = p], ret |-> FALSE]

xor16_allocate(size, filter, ok, g) ==
    LET capacity0 == Capacity(size)
        capacity == (capacity0 \div 3) * 3
        p == Malloc(16, ok, g, capacity)
    IN  IF p # NULL
        THEN [filter |-> [filter EXCEPT !.fingerprints = p,
                                        !.blockLength = capacity \div 3],
              ret |-> TRUE]
        ELSE [filter |-> [filter EXCEPT !.fingerprints = p,
                                        !.blockLength = capacity0 \div 3],
              ret |-> FALSE]

xor_allocate(W, size, filter, ok, g) ==
    IF W = 8 THEN xor8_allocate(size, filter, ok, g)
    ELSE xor16_allocate(size, filter, ok, g)

xor_size_in_bytes(W, filter) ==
    3 * filter.blockLength * CellBytes(W) + SizeofFilter

xor_free(filter) == [filter EXCEPT !.fingerprints = NULL, !.blockLength = 0]

\* lines 203-209, one index at a time, as uint32_t values: blockLength is a
\* uint64_t, narrowed to uint32_t as the argument of xor_reduce, and each sum
\* is narrowed to uint32_t
index_h0(hash, blockLength) == xor_reduce(Low32(hash), Low32(blockLength))

index_h1(hash, blockLength) ==
    Low32(Add64(xor_reduce(Low32(xor_rotl64(hash, 21)), Low32(blockLength)),
                blockLength))

index_h2(hash, blockLength) ==
    Low32(Add64(xor_reduce(Low32(xor_rotl64(hash, 42)), Low32(blockLength)),
                Mul64(ToWord(2), blockLength)))

\* the three slot indices of a hash; blockLength is a uint64_t, narrowed to
\* uint32_t as the argument of xor_reduce, and each sum is narrowed to uint32_t
xor_get_just_h0_h1_h2(hash, filter) ==
    LET blockLength == ToWord(filter.blockLength)
    IN  [h0 |-> FromWord(index_h0(hash, blockLength)),
         h1 |-> FromWord(index_h1(hash, blockLength)),
         h2 |-> FromWord(index_h2(hash, blockLength))]

xor_get_h0_h1_h2(k, filter) ==
    LET hash == xor_mix_split(k, filter.seed)
        answer == xor_get_just_h0_h1_h2(hash, filter)
    IN  [h |-> hash, h0 |-> answer.h0, h1 |-> answer.h1, h2 |-> answer.h2]

\* the fingerprint of a hash xored with three cells, narrowed to a cell
XorCells(W, fp, a, b, c) ==
    Trunc(W, Xor64(Xor64(Xor64(fp, ToWord(a)), ToWord(b)), ToWord(c)))

\* xor_contain with the second index taken without its block offset
xor_contain_noblock(W, key, filter) ==
    LET hash == xor_mix_split(ToWord(key), filter.seed)
        f == Trunc(W, xor_fingerprint(hash))
        blockLength == ToWord(filter.blockLength)
        r0 == Low32(hash)
        r1 == Low32(xor_rotl64(hash, 21))
        r2 == Low32(xor_rotl64(hash, 42))
        h0 == FromWord(xor_reduce(r0, Low32(blockLength)))
        h1 == FromWord(xor_reduce(r1, Low32(blockLength)))
        h2 == FromWord(Low32(Add64(xor_reduce(r2, Low32(blockLength)),
                                   Mul64(ToWord(2), blockLength))))
    IN  XorCells(W, ToWord(f), At(filter.fingerprints, h0),
                 At(filter.fingerprints, h1), At(filter.fingerprints, h2)) = 0

xor_contain(W, key, filter) ==
    LET hash == xor_mix_split(ToWord(key), filter.seed)
        f == Trunc(W, xor_fingerprint(hash))
        blockLength == ToWord(filter.blockLength)
        r0 == Low32(hash)
        r1 == Low32(xor_rotl64(hash, 21))
        r2 == Low32(xor_rotl64(hash, 42))
        h0 == FromWord(xor_reduce(r0, Low32(blockLength)))
        h1 == FromWord(Low32(Add64(xor_reduce(r1, Low32(blockLength)),
                                   blockLength)))
        h2 == FromWord(Low32(Add64(xor_reduce(r2, Low32(blockLength)),
                                   Mul64(ToWord(2), blockLength))))
    IN  XorCells(W, ToWord(f), At(filter.fingerprints, h0),
                 At(filter.fingerprints, h1), At(filter.fingerprints, h2)) = 0

(***************************************************************************)
(* xor_contain as a thread runs it: its locals, and the three places where *)
(* it reads the filter (the seed, the block length, the three cells).      *)
(***************************************************************************)
call0 == [hash |-> Word0, f |-> 0, h0 |-> 0, h1 |-> 0, h2 |-> 0, ret |-> FALSE]

\* contain_load that stores the folded fingerprint back into the first cell
contain_load_store(W, filter, c) ==
    LET f == XorCells(W, ToWord(c.f), At(filter.fingerprints, c.h0),
                      At(filter.fingerprints, c.h1), At(filter.fingerprints, c.h2))
    IN  [filter |-> [filter EXCEPT !.fingerprints[c.h0 + 1] = f],
         call |-> [c EXCEPT !.f = f, !.ret = (f = 0)]]

\* lines 74-75: the hash of the key under filter->seed, and its fingerprint
contain_hash(W, key, filter, c) ==
    LET hash == xor_mix_split(ToWord(key), filter.seed)
    IN  [filter |-> filter,
         call |-> [c EXCEPT !.hash = hash, !.f = Trunc(W, xor_fingerprint(hash))]]

\* lines 76-81: the three indices, from filter->blockLength
contain_index(filter, c) ==
    LET blockLength == ToWord(filter.blockLength)
        r0 == Low32(c.hash)
        r1 == Low32(xor_rotl64(c.hash, 21))
        r2 == Low32(xor_rotl64(c.hash, 42))
    IN  [filter |-> filter,
         call |-> [c EXCEPT
                     !.h0 = FromWord(xor_reduce(r0, Low32(blockLength))),
                     !.h1 = FromWord(Low32(Add64(xor_reduce(r1, Low32(blockLength)),
                                                 blockLength))),
                     !.h2 = FromWord(Low32(Add64(xor_reduce(r2, Low32(blockLength)),
                                                 Mul64(ToWord(2), blockLength))))]]

\* lines 82-84: the three cells folded into f, and the answer
contain_load(W, filter, c) ==
    LET f == XorCells(W, ToWord(c.f), At(filter.fingerprints, c.h0),
                      At(filter.fingerprints, c.h1), At(filter.fingerprints, c.h2))
    IN  [filter |-> filter, call |-> [c EXCEPT !.f = f, !.ret = (f = 0)]]

(***************************************************************************)
(* Construction.  The frame of a populate call holds its arguments, its    *)
(* locals and the three scratch pointers; pc is the place the call has     *)
(* reached: "idle" when no call is running, "fail" and "done" at the        *)
(* return of false and of true.  sets[i].count is a uint64_t; it           *)
(* is kept as the integer nearest zero that is congruent to it modulo      *)
(* 2^64, which the tests count == 0 and count == 1 cannot tell apart.      *)
(***************************************************************************)
xorset0 == [xormask |-> Word0, count |-> 0]

SetsXor(sets, i, hash, d) ==
    [sets EXCEPT ![i + 1] = [xormask |-> Xor64(@.xormask, hash),
                             count |-> @.count + d]]

\* lines 275-284 from key i on
RECURSIVE AddKeys(_, _, _, _, _)
AddKeys(sets, keys, i, size, filter) ==
    IF i > size THEN sets
    ELSE LET hs == xor_get_h0_h1_h2(ToWord(keys[i]), filter)
             s0 == SetsXor(sets, hs.h0, hs.h, 1)
             s1 == SetsXor(s0, hs.h1, hs.h, 1)
             s2 == SetsXor(s1, hs.h2, hs.h, 1)
         IN  AddKeys(s2, keys, i + 1, size, filter)

\* the scan taking every slot of count one or more
RECURSIVE ScanOnes_ge(_, _, _, _)
ScanOnes_ge(sets, i, arrayLength, Q) ==
    IF i >= arrayLength THEN Q
    ELSE ScanOnes_ge(sets, i + 1, arrayLength,
                     IF At(sets, i).count >= 1 THEN Append(Q, i) ELSE Q)

\* lines 286-290 from index i on
RECURSIVE ScanOnes(_, _, _, _)
ScanOnes(sets, i, arrayLength, Q) ==
    IF i >= arrayLength THEN Q
    ELSE ScanOnes(sets, i + 1, arrayLength,
                  IF At(sets, i).count = 1 THEN Append(Q, i) ELSE Q)

frame0 ==
    [pc |-> "idle", keys |-> << >>, size |-> 0, rng_counter |-> Word0,
     arrayLength |-> 0, sets |-> << >>, Q |-> << >>, stack |-> << >>,
     stack_size |-> 0, psets |-> "NULL", pQ |-> "NULL", pstack |-> "NULL",
     ret |-> FALSE]

\* the raw counter taken as the first seed, nothing drawn
FirstDraw_raw == [counter |-> ToWord(1), value |-> ToWord(1)]

\* lines 257-258: rng_counter = 1 and the first number drawn from it
FirstDraw == xor_rng_splitmix64(ToWord(1))

\* populate_begin whose failure path forgets free(Q)
populate_begin_leak(keys, size, filter, oksets, okQ, okstack) ==
    LET r == FirstDraw
        f == [filter EXCEPT !.seed = r.value]
        fr == [frame0 EXCEPT !.keys = keys, !.size = size,
                             !.rng_counter = r.counter,
                             !.arrayLength = filter.blockLength * 3,
                             !.psets = IF oksets THEN "live" ELSE "NULL",
                             !.pQ = IF okQ THEN "live" ELSE "NULL",
                             !.pstack = IF okstack THEN "live" ELSE "NULL"]
    IN  IF fr.psets = "NULL" \/ fr.pQ = "NULL" \/ fr.pstack = "NULL"
        THEN [filter |-> f,
              frame |-> [fr EXCEPT !.psets = Release(@),
                                   !.pstack = Release(@), !.ret = FALSE,
                                   !.pc = "fail"]]
        ELSE [filter |-> f, frame |-> [fr EXCEPT !.pc = "fill"]]

\* populate_begin that stores the seed only once the scratch is obtained
populate_begin_keep(keys, size, filter, oksets, okQ, okstack) ==
    LET r == FirstDraw
        f == [filter EXCEPT !.seed = r.value]
        fr == [frame0 EXCEPT !.keys = keys, !.size = size,
                             !.rng_counter = r.counter,
                             !.arrayLength = filter.blockLength * 3,
                             !.psets = IF oksets THEN "live" ELSE "NULL",
                             !.pQ = IF okQ THEN "live" ELSE "NULL",
                             !.pstack = IF okstack THEN "live" ELSE "NULL"]
    IN  IF fr.psets = "NULL" \/ fr.pQ = "NULL" \/ fr.pstack = "NULL"
        THEN [filter |-> filter,
              frame |-> [fr EXCEPT !.psets = Release(@), !.pQ = Release(@),
                                   !.pstack = Release(@), !.ret = FALSE,
                                   !.pc = "fail"]]
        ELSE [filter |-> f, frame |-> [fr EXCEPT !.pc = "fill"]]

\* lines 257-271: seed the filter, obtain the scratch, give up if any is NULL
populate_begin(keys, size, filter, oksets, okQ, okstack) ==
    LET r == FirstDraw
        f == [filter EXCEPT !.seed = r.value]
        fr == [frame0 EXCEPT !.keys = keys, !.size = size,
                             !.rng_counter = r.counter,
                             !.arrayLength = filter.blockLength * 3,
                             !.psets = IF oksets THEN "live" ELSE "NULL",
                             !.pQ = IF okQ THEN "live" ELSE "NULL",
                             !.pstack = IF okstack THEN "live" ELSE "NULL"]
    IN  IF fr.psets = "NULL" \/ fr.pQ = "NULL" \/ fr.pstack = "NULL"
        THEN [filter |-> f,
              frame |-> [fr EXCEPT !.psets = Release(@), !.pQ = Release(@),
                                   !.pstack = Release(@), !.ret = FALSE,
                                   !.pc = "fail"]]
        ELSE [filter |-> f, frame |-> [fr EXCEPT !.pc = "fill"]]

\* lines 274-291: clear sets, add every key, collect the slots of count one
populate_fill(filter, fr) ==
    LET zero == [i \in 1..fr.arrayLength |-> xorset0]
        sets == AddKeys(zero, fr.keys, 1, fr.size, filter)
    IN  [filter |-> filter,
         frame |-> [fr EXCEPT !.sets = sets,
                              !.Q = ScanOnes(sets, 0, fr.arrayLength, << >>),
                              !.stack = << >>, !.pc = "peel"]]

\* PushIfOne that never pushes: only the slots found by the scan are popped
PushIfOne_never(Q, sets, h) == Q

\* PushIfOne that also pushes a slot whose count has reached 0
PushIfOne_le(Q, sets, h) == IF At(sets, h).count <= 1 THEN Append(Q, h) ELSE Q

\* PushIfOne without its test: every slot of the peeled key is pushed
PushIfOne_always(Q, sets, h) == Append(Q, h)

PushIfOne(Q, sets, h) == IF At(sets, h).count = 1 THEN Append(Q, h) ELSE Q

\* populate_peel without the test of line 294: a popped slot of count 0 is
\* treated as a slot of count 1
populate_peel_nocheck(filter, fr) ==
    LET index == fr.Q[Len(fr.Q)]
        Q0 == SubSeq(fr.Q, 1, Len(fr.Q) - 1)
        hash == At(fr.sets, index).xormask
        hashes == xor_get_just_h0_h1_h2(hash, filter)
        s0 == SetsXor(fr.sets, hashes.h0, hash, -1)
        s1 == SetsXor(s0, hashes.h1, hash, -1)
        s2 == SetsXor(s1, hashes.h2, hash, -1)
        Q1 == PushIfOne(Q0, s2, hashes.h0)
        Q2 == PushIfOne(Q1, s2, hashes.h1)
        Q3 == PushIfOne(Q2, s2, hashes.h2)
    IN  [filter |-> filter,
         frame |-> [fr EXCEPT !.stack = Append(@, [hash |-> hash,
                                                   index |-> index]),
                              !.sets = s2, !.Q = Q3]]

\* lines 292-319: one turn of the peel loop (Qsize > 0), the entry taken from
\* place q of Q; the code takes the last one, Q[--Qsize]
populate_peel_at(filter, fr, q) ==
    LET index == fr.Q[q]
        Q0 == SubSeq(fr.Q, 1, q - 1) \o SubSeq(fr.Q, q + 1, Len(fr.Q))
        hash == At(fr.sets, index).xormask
        hashes == xor_get_just_h0_h1_h2(hash, filter)
        s0 == SetsXor(fr.sets, hashes.h0, hash, -1)
        s1 == SetsXor(s0, hashes.h1, hash, -1)
        s2 == SetsXor(s1, hashes.h2, hash, -1)
        Q1 == PushIfOne(Q0, s2, hashes.h0)
        Q2 == PushIfOne(Q1, s2, hashes.h1)
        Q3 == PushIfOne(Q2, s2, hashes.h2)
    IN  IF At(fr.sets, index).count = 0
        THEN [filter |-> filter, frame |-> [fr EXCEPT !.Q = Q0]]
        ELSE [filter |-> filter,
              frame |-> [fr EXCEPT !.stack = Append(@, [hash |-> hash,
                                                        index |-> index]),
                                   !.sets = s2, !.Q = Q3]]

populate_peel(filter, fr) == populate_peel_at(filter, fr, Len(fr.Q))

\* lines 320-327: the peel loop is over (Qsize = 0); go on or draw a new seed
populate_check(filter, fr) ==
    IF Len(fr.stack) = fr.size
    THEN [filter |-> filter,
          frame |-> [fr EXCEPT !.stack_size = fr.size, !.pc = "assign"]]
    ELSE LET r == xor_rng_splitmix64(fr.rng_counter)
         IN  [filter |-> [filter EXCEPT !.seed = r.value],
              frame |-> [fr EXCEPT !.rng_counter = r.counter, !.pc = "fill"]]

\* populate_assign without line 331: the new value is xored into the old one
populate_assign_noclear(W, filter, fr) ==
    LET ki == fr.stack[fr.stack_size]
        hashes == xor_get_just_h0_h1_h2(ki.hash, filter)
        F0 == filter.fingerprints
        F1 == [F0 EXCEPT ![ki.index + 1] =
                  XorCells(W, xor_fingerprint(ki.hash), At(F0, hashes.h0),
                           At(F0, hashes.h1), At(F0, hashes.h2))]
    IN  [filter |-> [filter EXCEPT !.fingerprints = F1],
         frame |-> [fr EXCEPT !.stack_size = @ - 1]]

\* populate_assign storing the fingerprint itself, the other two slots ignored
populate_assign_plain(W, filter, fr) ==
    LET ki == fr.stack[fr.stack_size]
        F1 == [filter.fingerprints EXCEPT ![ki.index + 1] =
                  Trunc(W, xor_fingerprint(ki.hash))]
    IN  [filter |-> [filter EXCEPT !.fingerprints = F1],
         frame |-> [fr EXCEPT !.stack_size = @ - 1]]

\* populate_assign going through the stack from the bottom to the top
populate_assign_forward(W, filter, fr) ==
    LET ki == fr.stack[fr.size - fr.stack_size + 1]
        hashes == xor_get_just_h0_h1_h2(ki.hash, filter)
        F0 == [filter.fingerprints EXCEPT ![ki.index + 1] = 0]
        F1 == [F0 EXCEPT ![ki.index + 1] =
                  XorCells(W, xor_fingerprint(ki.hash), At(F0, hashes.h0),
                           At(F0, hashes.h1), At(F0, hashes.h2))]
    IN  [filter |-> [filter EXCEPT !.fingerprints = F1],
         frame |-> [fr EXCEPT !.stack_size = @ - 1]]

\* lines 328-336: one turn of the assignment loop (stack_size > 0)
populate_assign(W, filter, fr) ==
    LET ki == fr.stack[fr.stack_size]
        hashes == xor_get_just_h0_h1_h2(ki.hash, filter)
        F0 == [filter.fingerprints EXCEPT ![ki.index + 1] = 0]
        F1 == [F0 EXCEPT ![ki.index + 1] =
                  XorCells(W, xor_fingerprint(ki.hash), At(F0, hashes.h0),
                           At(F0, hashes.h1), At(F0, hashes.h2))]
    IN  [filter |-> [filter EXCEPT !.fingerprints = F1],
         frame |-> [fr EXCEPT !.stack_size = @ - 1]]

\* lines 337-340: release the scratch and report success
populate_return(filter, fr) ==
    [filter |-> filter,
     frame |-> [fr EXCEPT !.psets = Release(@), !.pQ = Release(@),
                          !.pstack = Release(@), !.ret = TRUE, !.pc = "done"]]

(***************************************************************************)
(* The state: one xor8_t and one xor16_t, driven side by side by the same  *)
(* calls with the same arguments and the same allocation outcomes.         *)
(***************************************************************************)
VARIABLES
    machine,  \* machine[W].filter: seed, blockLength, fingerprints of the filter;
              \* machine[W].frame: the populate call running on it, or the last one
    op,       \* the last call made
    ret,      \* ret[W]: what the last call of allocate, populate or contain returned
    sized,    \* the element count given to the last allocate
    before,   \* before[W]: the filter as the running populate call found it
    attempt,  \* seeds drawn so far by the populate call
    calls,    \* populate calls made so far
    prev,     \* the key array of the last populate that returned true on the
              \* present slot array, in a sequence (empty if there was none)
    query,    \* the key of the last contain, 0 if none since the last change
    runs,     \* the populate calls that returned true: their keys and the filters
    bytes,    \* bytes[W]: what the last size_in_bytes returned
    readers,  \* readers[r]: the contain call thread r is running, its locals
    probe,    \* the last computation of slot indices: its inputs, its results
    pushes    \* the slot indices pushed onto Q in the running attempt: those
              \* pushed at least once, and those pushed again after that

vars == <<machine, op, ret, sized, before, attempt, calls, prev, query, runs, bytes,
         readers, probe, pushes>>

Filter(W) == machine[W].filter

Frame(W) == machine[W].frame

Filters == [W \in Widths |-> machine[W].filter]

Readers == 1..MaxReaders

\* a thread that is not inside xor_contain
reader0 == [pc |-> "idle", key |-> 0, call |-> [W \in Widths |-> call0]]

\* nothing pushed onto Q
pushes0 == [once |-> {}, again |-> {}]

\* the record of the pushes after the indices new[from], new[from + 1], ...
RECURSIVE Pushed(_, _, _)
Pushed(log, new, from) ==
    IF from > Len(new) THEN log
    ELSE Pushed([once |-> log.once \cup {new[from]},
                 again |-> IF new[from] \in log.once
                           THEN log.again \cup {new[from]} ELSE log.again],
                new, from + 1)

\* no slot indices computed yet
probe0 == [blockLength |-> Word0, key |-> 0, seed |-> Word0, hash |-> Word0,
           h0 |-> Word0, h1 |-> Word0, h2 |-> Word0]

\* a filter struct before any allocate: as xor8_free leaves it, seed cleared
filter0 == [seed |-> Word0, blockLength |-> 0, fingerprints |-> NULL]

Init ==
    /\ machine = [W \in Widths |-> [filter |-> filter0, frame |-> frame0]]
    /\ op = "none"
    /\ ret = [W \in Widths |-> FALSE]
    /\ sized = 0
    /\ before = [W \in Widths |-> filter0]
    /\ attempt = 0
    /\ calls = 0
    /\ prev = << >>
    /\ query = 0
    /\ runs = {}
    /\ bytes = [W \in Widths |-> 0]
    /\ readers = [r \in Readers |-> reader0]
    /\ probe = probe0
    /\ pushes = pushes0

Idle == \A W \in Widths : Frame(W).pc = "idle"

Allocated == \A W \in Widths : Filter(W).fingerprints # NULL

AllAt(pc) == \A W \in Widths : Frame(W).pc = pc

\* xor8_allocate(n, &filter8) and xor16_allocate(n, &filter16)
AllocateStep(n, ok, g) ==
    /\ Idle
    /\ \A W \in Widths : Filter(W).fingerprints = NULL
    /\ LET r == [W \in Widths |-> xor_allocate(W, n, Filter(W), ok, g)]
       IN  /\ machine' = [W \in Widths |-> [filter |-> r[W].filter, frame |-> frame0]]
           /\ ret' = [W \in Widths |-> r[W].ret]
    /\ op' = "allocate"
    /\ sized' = n
    /\ before' = [W \in Widths |-> machine'[W].filter]
    /\ attempt' = 0
    /\ prev' = << >>
    /\ query' = 0
    /\ UNCHANGED calls

\* xor8_free(&filter8) and xor16_free(&filter16)
FreeStep ==
    /\ Idle
    /\ Allocated
    /\ machine' = [W \in Widths |-> [filter |-> xor_free(Filter(W)), frame |-> frame0]]
    /\ op' = "free"
    /\ before' = [W \in Widths |-> machine'[W].filter]
    /\ attempt' = 0
    /\ prev' = << >>
    /\ query' = 0
    /\ UNCHANGED <<ret, sized, calls>>

\* xor8_contain(k, &filter8) and xor16_contain(k, &filter16)
ContainStep(k) ==
    /\ Idle
    /\ Allocated
    /\ ret' = [W \in Widths |-> xor_contain(W, k, Filter(W))]
    /\ op' = "contain"
    /\ query' = k
    /\ UNCHANGED <<machine, sized, before, attempt, calls, prev>>

\* the call of populate up to its first return or its first attempt
BeginStep(keys, oksets, okQ, okstack) ==
    /\ Idle
    /\ Allocated
    /\ calls < MaxCalls
    /\ Len(keys) <= sized
    /\ machine' = [W \in Widths |->
                     populate_begin(keys, Len(keys), Filter(W), oksets, okQ, okstack)]
    /\ op' = "populate"
    /\ before' = Filters
    /\ attempt' = 1
    /\ calls' = calls + 1
    /\ query' = 0
    /\ UNCHANGED <<ret, sized, prev>>

FillStep ==
    /\ AllAt("fill")
    /\ machine' = [W \in Widths |-> populate_fill(Filter(W), Frame(W))]
    /\ UNCHANGED <<op, ret, sized, before, attempt, calls, prev, query>>

PeelStep ==
    /\ AllAt("peel")
    /\ \A W \in Widths : Len(Frame(W).Q) > 0
    /\ machine' = [W \in Widths |-> populate_peel(Filter(W), Frame(W))]
    /\ UNCHANGED <<op, ret, sized, before, attempt, calls, prev, query>>

\* the end of an attempt that collected every key
SuccessStep ==
    /\ AllAt("peel")
    /\ \A W \in Widths : Len(Frame(W).Q) = 0 /\ Len(Frame(W).stack) = Frame(W).size
    /\ machine' = [W \in Widths |-> populate_check(Filter(W), Frame(W))]
    /\ UNCHANGED <<op, ret, sized, before, attempt, calls, prev, query>>

\* the end of an attempt that did not: a new seed, another attempt
RetryStep ==
    /\ AllAt("peel")
    /\ \A W \in Widths : Len(Frame(W).Q) = 0 /\ Len(Frame(W).stack) # Frame(W).size
    /\ attempt < MaxAttempts
    /\ machine' = [W \in Widths |-> populate_check(Filter(W), Frame(W))]
    /\ attempt' = attempt + 1
    /\ UNCHANGED <<op, ret, sized, before, calls, prev, query>>

AssignStep ==
    /\ AllAt("assign")
    /\ \A W \in Widths : Frame(W).stack_size > 0
    /\ machine' = [W \in Widths |-> populate_assign(W, Filter(W), Frame(W))]
    /\ UNCHANGED <<op, ret, sized, before, attempt, calls, prev, query>>

ReturnStep ==
    /\ AllAt("assign")
    /\ \A W \in Widths : Frame(W).stack_size = 0
    /\ machine' = [W \in Widths |-> populate_return(Filter(W), Frame(W))]
    /\ UNCHANGED <<op, ret, sized, before, attempt, calls, prev, query>>

\* the call returns to its caller: its frame is gone
ExitStep ==
    /\ \A W \in Widths : Frame(W).pc \in {"fail", "done"}
    /\ machine' = [W \in Widths |-> [filter |-> Filter(W), frame |-> frame0]]
    /\ ret' = [W \in Widths |-> Frame(W).ret]
    /\ before' = Filters
    /\ attempt' = 0
    /\ prev' = IF AllAt("done") THEN <<Frame(8).keys>> ELSE prev
    /\ UNCHANGED <<op, sized, calls, query>>

Allocate == \E n \in 0..MaxSize, ok \in BOOLEAN, g \in Patterns :
                AllocateStep(n, ok, g) /\ UNCHANGED <<runs, bytes, readers, probe, pushes>>

Free == FreeStep /\ UNCHANGED <<runs, bytes, readers, probe, pushes>>

Contain == \E k \in QueryKeys : ContainStep(k) /\ UNCHANGED <<runs, bytes, readers, probe, pushes>>

PopulateBegin == \E keys \in KeyArrays, oksets, okQ, okstack \in BOOLEAN :
                     BeginStep(keys, oksets, okQ, okstack) /\ UNCHANGED <<runs, bytes, readers, probe, pushes>>

PopulateFill ==
    /\ FillStep
    /\ pushes' = Pushed(pushes0, machine'[8].frame.Q, 1)
    /\ UNCHANGED <<runs, bytes, readers, probe>>

\* a turn pops one entry and pushes its new ones behind those that stay
PopulatePeel ==
    /\ PeelStep
    /\ pushes' = Pushed(pushes, machine'[8].frame.Q, Len(Frame(8).Q))
    /\ UNCHANGED <<runs, bytes, readers, probe>>

PopulateSuccess == SuccessStep /\ UNCHANGED <<runs, bytes, readers, probe, pushes>>

PopulateRetry == RetryStep /\ UNCHANGED <<runs, bytes, readers, probe, pushes>>

PopulateAssign == AssignStep /\ UNCHANGED <<runs, bytes, readers, probe, pushes>>

PopulateReturn == ReturnStep /\ UNCHANGED <<runs, bytes, readers, probe, pushes>>

PopulateExit == ExitStep /\ pushes' = pushes0 /\ UNCHANGED <<runs, bytes, readers, probe>>

Next ==
    \/ Allocate
    \/ Free
    \/ Contain
    \/ PopulateBegin
    \/ PopulateFill
    \/ PopulatePeel
    \/ PopulateSuccess
    \/ PopulateRetry
    \/ PopulateAssign
    \/ PopulateReturn
    \/ PopulateExit

Spec == Init /\ [][Next]_vars

(***************************************************************************)
(* The same calls with a record kept of every populate that returned true, *)
(* on filters of the largest size, with distinct keys and no failing       *)
(* allocation: two runs on the same keys can be compared.                  *)
(***************************************************************************)
DistinctArrays == {keys \in KeyArrays : Distinct(keys)}

RunsAllocate == \E g \in Patterns :
                    AllocateStep(MaxSize, TRUE, g) /\ UNCHANGED <<runs, bytes, readers, probe, pushes>>

RunsBegin == \E keys \in DistinctArrays :
                 BeginStep(keys, TRUE, TRUE, TRUE) /\ UNCHANGED <<runs, bytes, readers, probe, pushes>>

RunsReturn ==
    /\ ReturnStep
    /\ runs' = runs \cup {[keys |-> Frame(8).keys,
                           filter |-> [W \in Widths |-> machine'[W].filter]]}
    /\ UNCHANGED <<bytes, readers, probe, pushes>>

RunsNext ==
    \/ RunsAllocate
    \/ Free
    \/ RunsBegin
    \/ PopulateFill
    \/ PopulatePeel
    \/ PopulateSuccess
    \/ PopulateRetry
    \/ PopulateAssign
    \/ RunsReturn
    \/ PopulateExit

RunsSpec == Init /\ [][RunsNext]_vars

(***************************************************************************)
(* Allocation and the size report alone, over a range of element counts.   *)
(***************************************************************************)
SizeAllocate == \E n \in 0..MaxCount, ok \in BOOLEAN, g \in Patterns :
                    /\ AllocateStep(n, ok, g)
                    /\ bytes' = [W \in Widths |-> 0]
                    /\ UNCHANGED <<runs, readers, probe, pushes>>

SizeFree == FreeStep /\ bytes' = [W \in Widths |-> 0] /\ UNCHANGED <<runs, readers, probe, pushes>>

\* xor8_size_in_bytes(&filter8) and xor16_size_in_bytes(&filter16)
SizeInBytes ==
    /\ Idle
    /\ bytes' = [W \in Widths |-> xor_size_in_bytes(W, Filter(W))]
    /\ op' = "size_in_bytes"
    /\ UNCHANGED <<machine, ret, sized, before, attempt, calls, prev, query, runs,
                   readers, probe, pushes>>

SizeNext ==
    \/ SizeAllocate
    \/ SizeFree
    \/ SizeInBytes

SizeSpec == Init /\ [][SizeNext]_vars

(***************************************************************************)
(* Threads that query the filters while no call writes them: each thread   *)
(* runs xor8_contain and xor16_contain on a key, a read of the filter at a *)
(* time, and the threads interleave freely.                                *)
(***************************************************************************)
ReadersIdle == \A r \in Readers : readers[r].pc = "idle"

Quiet == UNCHANGED <<op, ret, sized, before, attempt, calls, prev, query, runs, bytes,
                    probe, pushes>>

\* the step of thread r made by the operator step(W, filter, call)
ReaderStep(r, pc, step(_, _, _)) ==
    LET out == [W \in Widths |-> step(W, Filter(W), readers[r].call[W])]
    IN  /\ machine' = [W \in Widths |-> [machine[W] EXCEPT !.filter = out[W].filter]]
        /\ readers' = [readers EXCEPT ![r].pc = pc,
                                      ![r].call = [W \in Widths |-> out[W].call]]

ReadCall ==
    \E r \in Readers, k \in QueryKeys :
        /\ Idle
        /\ Allocated
        /\ readers[r].pc = "idle"
        /\ LET out == [W \in Widths |-> contain_hash(W, k, Filter(W), call0)]
           IN  /\ machine' = [W \in Widths |->
                                [machine[W] EXCEPT !.filter = out[W].filter]]
               /\ readers' = [readers EXCEPT ![r] =
                                [pc |-> "index", key |-> k,
                                 call |-> [W \in Widths |-> out[W].call]]]
        /\ Quiet

ReadIndex ==
    \E r \in Readers :
        /\ readers[r].pc = "index"
        /\ LET step(W, filter, c) == contain_index(filter, c)
           IN  ReaderStep(r, "load", step)
        /\ Quiet

ReadLoad ==
    \E r \in Readers :
        /\ readers[r].pc = "load"
        /\ ReaderStep(r, "ret", contain_load)
        /\ Quiet

ReadReturn ==
    \E r \in Readers :
        /\ readers[r].pc = "ret"
        /\ readers' = [readers EXCEPT ![r] = reader0]
        /\ UNCHANGED machine
        /\ Quiet

ReadersAllocate == ReadersIdle /\ RunsAllocate

ReadersFree == ReadersIdle /\ Free

ReadersBegin == ReadersIdle /\ RunsBegin

ReadersNext ==
    \/ ReadersAllocate
    \/ ReadersFree
    \/ ReadersBegin
    \/ PopulateFill
    \/ PopulatePeel
    \/ PopulateSuccess
    \/ PopulateRetry
    \/ PopulateAssign
    \/ PopulateReturn
    \/ PopulateExit
    \/ ReadCall
    \/ ReadIndex
    \/ ReadLoad
    \/ ReadReturn

ReadersSpec == Init /\ [][ReadersNext]_vars

(***************************************************************************)
(* Construction alone, on key arrays drawn from a pool in which keys share *)
(* one slot or all three, with no failing allocation and one populate call *)
(* for each slot array: the peeling and the assignment pass are followed   *)
(* turn by turn.                                                           *)
(***************************************************************************)
PeelPool == KeyPool \cup {2116}

PeelArrays == UNION {[1..n -> PeelPool] : n \in 0..MaxPeelSize}

PeelAllocate == \E n \in 0..MaxPeelSize, g \in Patterns :
                    AllocateStep(n, TRUE, g) /\ UNCHANGED <<runs, bytes, readers, probe, pushes>>

PeelBegin == \E keys \in PeelArrays :
                 /\ prev = << >>
                 /\ BeginStep(keys, TRUE, TRUE, TRUE)
                 /\ UNCHANGED <<runs, bytes, readers, probe, pushes>>

PeelNext ==
    \/ PeelAllocate
    \/ Free
    \/ PeelBegin
    \/ PopulateFill
    \/ PopulatePeel
    \/ PopulateSuccess
    \/ PopulateRetry
    \/ PopulateAssign
    \/ PopulateReturn
    \/ PopulateExit

PeelSpec == Init /\ [][PeelNext]_vars

(***************************************************************************)
(* The same construction with the entry to pop taken from any place of Q,  *)
(* the last (what the code does), the first, or one in between, on         *)
(* distinct keys.                                                          *)
(***************************************************************************)
OrderAllocate == AllocateStep(MaxPeelSize, TRUE, "zero") /\ UNCHANGED <<runs, bytes, readers, probe, pushes>>

OrderBegin == \E keys \in {a \in PeelArrays : Distinct(a)} :
                  /\ prev = << >>
                  /\ BeginStep(keys, TRUE, TRUE, TRUE)
                  /\ UNCHANGED <<runs, bytes, readers, probe, pushes>>

OrderPeel ==
    /\ AllAt("peel")
    /\ \E q \in 1..Len(Frame(8).Q) :
          /\ \A W \in Widths : q <= Len(Frame(W).Q)
          /\ machine' = [W \in Widths |-> populate_peel_at(Filter(W), Frame(W), q)]
    /\ pushes' = Pushed(pushes, machine'[8].frame.Q, Len(Frame(8).Q))
    /\ UNCHANGED <<op, ret, sized, before, attempt, calls, prev, query>>
    /\ UNCHANGED <<runs, bytes, readers, probe>>

OrderNext ==
    \/ OrderAllocate
    \/ Free
    \/ OrderBegin
    \/ PopulateFill
    \/ OrderPeel
    \/ PopulateSuccess
    \/ PopulateRetry
    \/ PopulateAssign
    \/ PopulateReturn
    \/ PopulateExit

OrderSpec == Init /\ [][OrderNext]_vars

(***************************************************************************)
(* The slot indices alone: keys hashed under a seed, and the indices of    *)
(* the hash for a block length that xor8_allocate gives.                   *)
(***************************************************************************)
\* blockLength after xor8_allocate(4294967296, &filter): capacity is
\* 32 + 1.23 * 2^32 = 5282809806, a multiple of 3, and blockLength a third
LargeBlockLength == <<154, 194, 245, 104, 0, 0, 0, 0>>

BlockLengths == {ToWord(Capacity(n) \div 3) : n \in 0..MaxCount} \cup {LargeBlockLength}

ProbeSeeds == {Word0, FirstDraw.value}

IndexProbe ==
    \E blockLength \in BlockLengths, seed \in ProbeSeeds, k \in 0..MaxProbe :
        LET hash == xor_mix_split(ToWord(k), seed)
        IN  /\ probe' = [blockLength |-> blockLength, key |-> k, seed |-> seed,
                         hash |-> hash,
                         h0 |-> index_h0(hash, blockLength),
                         h1 |-> index_h1(hash, blockLength),
                         h2 |-> index_h2(hash, blockLength)]
            /\ UNCHANGED <<machine, op, ret, sized, before, attempt, calls, prev,
                           query, runs, bytes, readers, pushes>>

IndexNext == IndexProbe

IndexSpec == Init /\ [][IndexNext]_vars

(***************************************************************************)
(* Properties.                                                             *)
(***************************************************************************)
Done(W) == Frame(W).pc = "done"

KeysOf(W) == {Frame(W).keys[i] : i \in 1..Len(Frame(W).keys)}

HasDuplicate(keys) == ~Distinct(keys)

\* the slot indices recorded on the stack of the call
StackIndices(W) == {Frame(W).stack[i].index : i \in 1..Len(Frame(W).stack)}

Slots(W) == 0..(3 * Filter(W).blockLength - 1)

Cell(W, i) == At(Filter(W).fingerprints, i)

CellBefore(W, i) == At(before[W].fingerprints, i)

\* the fingerprint of key k under the seed of the filter, as a cell
Fp(W, k) == Trunc(W, xor_fingerprint(xor_mix_split(ToWord(k), Filter(W).seed)))

\* the three slots of key k under the seed of the filter
SlotsOf(W, k) ==
    LET hs == xor_get_h0_h1_h2(ToWord(k), Filter(W))
    IN  <<hs.h0, hs.h1, hs.h2>>

\* C1: when populate returns true for pairwise distinct keys on a filter that
\* allocate sized for them, contain is true of every key, in both widths and
\* whatever the slots held before the call.
NoFalseNegatives ==
    \A W \in Widths :
        (Done(W) /\ Distinct(Frame(W).keys) /\ Frame(W).size <= sized)
            => \A k \in KeysOf(W) : xor_contain(W, k, Filter(W))

NoFalseNegativesWitness ==
    /\ \A W \in Widths : Done(W) /\ Frame(W).keys = <<93, 1640>>
    /\ sized = 2
    /\ attempt = 2
    /\ \E W \in Widths : \E i \in Slots(W) : CellBefore(W, i) # 0

\* the value line 332 gives the slot of stack entry e from the other two slots
Assigned(W, e) ==
    LET hs == xor_get_just_h0_h1_h2(e.hash, Filter(W))
        others == {hs.h0, hs.h1, hs.h2} \ {e.index}
        cell(i) == IF i = e.index THEN 0 ELSE Cell(W, i)
    IN  XorCells(W, xor_fingerprint(e.hash), cell(hs.h0), cell(hs.h1), cell(hs.h2))

\* C2: a populate that returns true on a filter already populated with other
\* keys leaves each slot it recorded on its stack holding the value computed
\* from the other two slots of that key, leaves every other slot as it found
\* it, and contain is true of every key of the second array.
Repopulate ==
    \A W \in Widths :
        (Done(W) /\ prev # << >> /\ prev[1] # Frame(W).keys
            /\ Distinct(Frame(W).keys) /\ Frame(W).size <= sized)
        => /\ \A k \in KeysOf(W) : xor_contain(W, k, Filter(W))
           /\ \A i \in 1..Len(Frame(W).stack) :
                 Cell(W, Frame(W).stack[i].index) = Assigned(W, Frame(W).stack[i])
           /\ \A i \in Slots(W) \ StackIndices(W) : Cell(W, i) = CellBefore(W, i)

\* the second call ran on slots that the first call had written
RepopulateWitness ==
    /\ \A W \in Widths : Done(W) /\ Frame(W).keys = <<1640, 93>>
    /\ prev = << <<93>> >>
    /\ \E W \in Widths : \E i \in StackIndices(W) :
          CellBefore(W, i) # Cell(W, i) /\ CellBefore(W, i) # 0

\* C3: two populate calls that returned true on the same key array and the same
\* blockLength left the same seed and the same slots, whatever came before.
Determinism ==
    \A r1, r2 \in runs :
        (r1.keys = r2.keys
            /\ \A W \in Widths : r1.filter[W].blockLength = r2.filter[W].blockLength)
        => \A W \in Widths :
              /\ r1.filter[W].seed = r2.filter[W].seed
              /\ r1.filter[W].fingerprints = r2.filter[W].fingerprints

\* C4: after a populate that returned true, every slot that no stack entry
\* records holds 0.
UnreferencedZero ==
    \A W \in Widths :
        Done(W) => \A i \in Slots(W) \ StackIndices(W) : Cell(W, i) = 0

\* C5: populate of no key returns true, and contain is then true exactly of the
\* keys whose fingerprint under the seed of the filter is 0.
EmptySet ==
    \A W \in Widths :
        /\ (Frame(W).pc = "fill" /\ Frame(W).size = 0) => attempt = 1
        /\ (Frame(W).pc = "peel" /\ Frame(W).size = 0) => Frame(W).Q = << >>
        /\ (Done(W) /\ Frame(W).size = 0)
              => \A k \in QueryKeys : xor_contain(W, k, Filter(W)) <=> (Fp(W, k) = 0)

\* C6 as stated: after allocate(1) and a populate of one key that returned
\* true, exactly one of the three slots of the key is nonzero and it holds the
\* fingerprint of the key.
SingleKeyOneNonzero ==
    \A W \in Widths :
        (Done(W) /\ Frame(W).size = 1 /\ sized = 1)
        => LET k == Frame(W).keys[1]
               sl == SlotsOf(W, k)
               nz == {j \in 1..3 : Cell(W, sl[j]) # 0}
           IN  /\ Cardinality(nz) = 1
               /\ \A j \in nz : Cell(W, sl[j]) = Fp(W, k)

\* C6 as the code has it: a populate of one key that returned true wrote one
\* slot, h2 of the key; every other slot is as the call found it; the slot
\* written holds the fingerprint of the key xored with the slots h0 and h1,
\* hence the fingerprint itself (which may be 0) when those two hold 0.
SingleKeyOneWritten ==
    \A W \in Widths :
        (Done(W) /\ Frame(W).size = 1 /\ Frame(W).size <= sized)
        => LET k == Frame(W).keys[1]
               sl == SlotsOf(W, k)
           IN  /\ StackIndices(W) = {sl[3]}
               /\ \A i \in Slots(W) \ {sl[3]} : Cell(W, i) = CellBefore(W, i)
               /\ Cell(W, sl[3]) =
                     XorCells(W, ToWord(Fp(W, k)), Cell(W, sl[1]), Cell(W, sl[2]), 0)
               /\ (Cell(W, sl[1]) = 0 /\ Cell(W, sl[2]) = 0)
                     => Cell(W, sl[3]) = Fp(W, k)

\* one key of fingerprint 0 on zeroed slots: none of its three slots is nonzero
SingleKeyOneWrittenWitness ==
    /\ \A W \in Widths : Done(W) /\ Frame(W).keys = <<1640>>
    /\ sized = 1
    /\ Fp(8, 1640) = 0
    /\ \A j \in 1..3 : Cell(8, SlotsOf(8, 1640)[j]) = 0
    /\ Cell(16, SlotsOf(16, 1640)[3]) = Fp(16, 1640)

\* C7: when the key array holds a key twice or more, every attempt ends with
\* fewer entries on the stack than keys, so the call never reaches the
\* assignment pass nor the return of true.
DuplicatesDiverge ==
    \A W \in Widths :
        HasDuplicate(Frame(W).keys)
        => /\ (Frame(W).pc = "peel" /\ Frame(W).Q = << >>)
                 => Len(Frame(W).stack) < Frame(W).size
           /\ Frame(W).pc \notin {"assign", "done"}

DuplicatesDivergeWitness ==
    /\ \A W \in Widths : /\ Frame(W).pc = "peel"
                         /\ Frame(W).Q = << >>
                         /\ HasDuplicate(Frame(W).keys)
    /\ attempt >= 2

Scratch(W) == {Frame(W).psets, Frame(W).pQ, Frame(W).pstack}

\* C8: a populate call runs its attempts only if it obtained all three scratch
\* buffers; otherwise it returns false with every buffer it obtained freed once
\* and the slot array and blockLength of the filter as they were; when it
\* returns true the three buffers have been freed once.
ScratchReleased ==
    \A W \in Widths :
        /\ Frame(W).pc \in {"fill", "peel", "assign"} => Scratch(W) = {"live"}
        /\ Frame(W).pc = "fail"
              => /\ "NULL" \in Scratch(W)
                 /\ Scratch(W) \subseteq {"NULL", "freed"}
                 /\ Frame(W).ret = FALSE
                 /\ Filter(W).fingerprints # NULL
                 /\ Filter(W).fingerprints = before[W].fingerprints
                 /\ Filter(W).blockLength = before[W].blockLength
        /\ Done(W) => Scratch(W) = {"freed"} /\ Frame(W).ret = TRUE

ScratchReleasedWitness ==
    \A W \in Widths :
        /\ Frame(W).pc = "fail"
        /\ Frame(W).psets = "freed"
        /\ Frame(W).pQ = "NULL"
        /\ Frame(W).pstack = "freed"

\* C9: the 8-bit and the 16-bit filter, given the same calls, return the same
\* booleans, hold the same seed and the same blockLength (also when an
\* allocation fails), peel in the same order, and each 8-bit slot is the low
\* byte of the 16-bit slot if that was so when the call began.
SameMachine ==
    /\ (Idle /\ op \in {"allocate", "populate"}) => ret[8] = ret[16]
    /\ Filter(8).seed = Filter(16).seed
    /\ Filter(8).blockLength = Filter(16).blockLength
    /\ Frame(8).pc = Frame(16).pc
    /\ Frame(8).stack = Frame(16).stack
    /\ (Allocated /\ \A i \in Slots(8) : CellBefore(8, i) = CellBefore(16, i) % 256)
          => \A i \in Slots(8) : Cell(8, i) = Cell(16, i) % 256

\* C10: after an allocate(n) that returned true, blockLength is
\* floor((32 + 1.23 n) / 3), 14 for n = 10, and the slot array has 3 *
\* blockLength cells; size_in_bytes is 3 * blockLength cells of 1 or 2 bytes
\* plus the size of the filter struct.
SizeLaw ==
    \A W \in Widths :
        /\ (op = "allocate" /\ ret[W])
              => /\ Filter(W).blockLength = (3200 + 123 * sized) \div 300
                 /\ Len(Filter(W).fingerprints) = 3 * Filter(W).blockLength
                 /\ sized = 10 => Filter(W).blockLength = 14
        /\ op = "size_in_bytes"
              => bytes[W] = 3 * Filter(W).blockLength * (IF W = 8 THEN 1 ELSE 2)
                            + SizeofFilter

SizeLawWitness ==
    /\ op = "size_in_bytes"
    /\ sized = 10
    /\ Allocated
    /\ bytes[8] = 66
    /\ bytes[16] = 108

\* C11: a contain call changes nothing in the filter, and on filters that no
\* call is writing every contain call, whatever the other threads' calls are
\* doing in between its reads, returns what one sequential call returns.
QueryPurity ==
    /\ [](\A r \in Readers :
            readers[r].pc = "ret" =>
                \A W \in Widths :
                    readers[r].call[W].ret = xor_contain(W, readers[r].key, Filter(W)))
    /\ [][readers' # readers => machine' = machine]_vars

\* two threads inside contain on the same key of a populated set, one at its
\* return with the answer true, the other before its loads
QueryPurityWitness ==
    /\ prev # << >>
    /\ readers[1].pc = "ret"
    /\ readers[2].pc = "load"
    /\ readers[1].key = readers[2].key
    /\ \E i \in 1..Len(prev[1]) : prev[1][i] = readers[1].key
    /\ \A W \in Widths : readers[1].call[W].ret

\* the hashes of the keys of the running call under the present seed
KeyHashes(W) ==
    [j \in 1..Frame(W).size |-> xor_mix_split(ToWord(Frame(W).keys[j]), Filter(W).seed)]

StackHashes(W) == {Frame(W).stack[i].hash : i \in 1..Len(Frame(W).stack)}

SlotSet(hash, filter) ==
    LET hs == xor_get_just_h0_h1_h2(hash, filter) IN {hs.h0, hs.h1, hs.h2}

\* C12: for distinct keys, during the peel every index waiting in Q has
\* count 0 or 1; when it is 1 its xormask is the hash of exactly one input
\* key, one that is not on the stack and that maps to the index; no key is
\* on the stack twice and no count is below 0.
PeelingInvariant ==
    \A W \in Widths :
        (Frame(W).pc = "peel" /\ Distinct(Frame(W).keys)) =>
            LET fr == Frame(W)
                kh == KeyHashes(W)
            IN  /\ \A i \in 1..Len(fr.sets) : fr.sets[i].count >= 0
                /\ \A q \in 1..Len(fr.Q) :
                     LET set == At(fr.sets, fr.Q[q])
                     IN  /\ set.count \in {0, 1}
                         /\ set.count = 1 =>
                              Cardinality({j \in 1..fr.size :
                                  /\ kh[j] = set.xormask
                                  /\ kh[j] \notin StackHashes(W)
                                  /\ fr.Q[q] \in SlotSet(kh[j], Filter(W))}) = 1
                /\ \A i, j \in 1..Len(fr.stack) :
                     fr.stack[i].hash = fr.stack[j].hash => i = j
                /\ \A i \in 1..Len(fr.stack) :
                     \E j \in 1..fr.size : kh[j] = fr.stack[i].hash

\* three distinct keys, one already on the stack, and the next index to be
\* popped holds exactly one key
PeelingInvariantWitness ==
    \A W \in Widths :
        /\ Frame(W).pc = "peel"
        /\ Distinct(Frame(W).keys)
        /\ Frame(W).size = 3
        /\ Len(Frame(W).stack) = 1
        /\ Len(Frame(W).Q) > 0
        /\ At(Frame(W).sets, Frame(W).Q[Len(Frame(W).Q)]).count = 1

\* the entry of the stack is satisfied: its fingerprint is the xor of its slots
Satisfied(W, e) ==
    LET hs == xor_get_just_h0_h1_h2(e.hash, Filter(W))
    IN  XorCells(W, xor_fingerprint(e.hash), Cell(W, hs.h0), Cell(W, hs.h1),
                 Cell(W, hs.h2)) = 0

\* C13: in the assignment pass, from the top of the stack to the bottom, the
\* two other slots of an entry are each the index of an entry peeled later
\* (written before it in the pass) or the index of no entry; no two entries
\* have the same index; a turn of the pass writes the slot of the topmost
\* entry not yet assigned and no other, so no slot of an assigned key is
\* written afterwards and every assigned key stays satisfied.
ReverseAssignment ==
    /\ [](\A W \in Widths :
            Frame(W).pc = "assign" =>
                LET st == Frame(W).stack
                IN  /\ \A a, b \in 1..Len(st) :
                         (a < b) => st[a].index \notin SlotSet(st[b].hash, Filter(W))
                    /\ \A a, b \in 1..Len(st) : st[a].index = st[b].index => a = b
                    /\ \A a \in 1..Len(st) :
                         a > Frame(W).stack_size => Satisfied(W, st[a]))
    /\ [][\A W \in Widths :
            (Frame(W).pc = "assign" /\ machine'[W].frame.pc = "assign") =>
                LET st == Frame(W).stack
                    top == Frame(W).stack_size
                IN  \A i \in Slots(W) :
                        At(machine'[W].filter.fingerprints, i) # Cell(W, i) =>
                            /\ i = st[top].index
                            /\ \A a \in 1..Len(st) :
                                 a > top => i \notin SlotSet(st[a].hash, Filter(W))]_vars

\* the entry about to be written reads a slot that an entry peeled later owns
\* and that the pass has already written
ReverseAssignmentWitness ==
    \A W \in Widths :
        /\ Frame(W).pc = "assign"
        /\ Frame(W).stack_size >= 1
        /\ LET st == Frame(W).stack
               top == Frame(W).stack_size
           IN  \E b \in 1..Len(st) :
                   /\ b > top
                   /\ st[b].index \in SlotSet(st[top].hash, Filter(W))
                   /\ Cell(W, st[b].index) # CellBefore(W, st[b].index)

\* the peel loop of the code run to its end from the frame fr
RECURSIVE PeelAll(_, _)
PeelAll(filter, fr) ==
    IF Len(fr.Q) = 0 THEN fr ELSE PeelAll(filter, populate_peel(filter, fr).frame)

\* the stack the code's own order (last in, first out) builds in this attempt
LifoStack(W) == PeelAll(Filter(W), populate_fill(Filter(W), Frame(W)).frame).stack

\* what is left of the set H of hashes when the hashes that are alone in one
\* of their slots are removed, again and again
RECURSIVE Core(_, _)
Core(H, filter) ==
    LET alone == {h \in H : \E i \in SlotSet(h, filter) :
                                \A g \in H \ {h} : i \notin SlotSet(g, filter)}
    IN  IF alone = {} THEN H ELSE Core(H \ alone, filter)

EndOfAttempt(W) == Frame(W).pc = "peel" /\ Len(Frame(W).Q) = 0

\* C14: for distinct keys and whatever entry of Q each turn takes, the
\* attempt ends with the same keys on the stack as the code's last-in
\* first-out order puts there, each once: the keys outside the core that
\* remains when keys alone in a slot are removed repeatedly; so the attempt
\* succeeds exactly when that core is empty.
OrderIndependence ==
    \A W \in Widths :
        (EndOfAttempt(W) /\ Distinct(Frame(W).keys)) =>
            LET kh == KeyHashes(W)
                H == {kh[j] : j \in 1..Frame(W).size}
                lifo == LifoStack(W)
                core == Core(H, Filter(W))
            IN  /\ StackHashes(W) = {lifo[i].hash : i \in 1..Len(lifo)}
                /\ StackHashes(W) = H \ core
                /\ Len(Frame(W).stack) = Cardinality(StackHashes(W))
                /\ Len(Frame(W).stack) = Len(lifo)
                /\ (Len(Frame(W).stack) = Frame(W).size) <=> (core = {})

\* an attempt on three keys that took its entries in another order than the
\* code does and ended with the three keys stacked in another order
OrderIndependenceWitness ==
    \A W \in Widths :
        /\ EndOfAttempt(W)
        /\ Frame(W).size = 3
        /\ Len(Frame(W).stack) = 3
        /\ Frame(W).stack # LifoStack(W)

\* the generator after j numbers were drawn from the counter 1, and the j-th
RECURSIVE Draw(_)
Draw(j) ==
    IF j = 0 THEN [counter |-> ToWord(1), value |-> Word0]
    ELSE xor_rng_splitmix64(Draw(j - 1).counter)

SeedSchedule == [j \in 0..(MaxAttempts + 1) |-> Draw(j)]

\* the keys of the call all peel under the seed: the attempt would succeed
Peels(W, seed) ==
    LET f == [Filter(W) EXCEPT !.seed = seed]
    IN  Len(PeelAll(f, populate_fill(f, Frame(W)).frame).stack) = Frame(W).size

\* C15: a populate call draws its seeds from the counter 1: in its j-th
\* attempt filter.seed is the j-th number of splitmix64, and the counter is
\* where j draws leave it; the seed changes only at the start of a call and
\* after an attempt that ended with stack_size # size; in the assignment pass
\* and at the return of true the seed is that of the first attempt of the
\* schedule under which every key peels.
SeedScheduleLaw ==
    /\ [](\A W \in Widths :
            /\ Frame(W).pc \in {"fill", "peel", "assign", "done", "fail"} =>
                 /\ Filter(W).seed = SeedSchedule[attempt].value
                 /\ Frame(W).rng_counter = SeedSchedule[attempt].counter
            /\ Frame(W).pc = "fail" => attempt = 1
            /\ Frame(W).pc \in {"assign", "done"} =>
                 /\ Peels(W, SeedSchedule[attempt].value)
                 /\ \A j \in 1..(attempt - 1) : ~Peels(W, SeedSchedule[j].value))
    /\ [][\A W \in Widths :
            machine'[W].filter.seed # Filter(W).seed =>
                \/ Frame(W).pc = "idle" /\ op' = "populate" /\ attempt' = 1
                \/ /\ EndOfAttempt(W)
                   /\ Len(Frame(W).stack) # Frame(W).size
                   /\ attempt' = attempt + 1]_vars

\* a call that returns true with the second seed of the schedule
SeedScheduleLawWitness ==
    /\ AllAt("done")
    /\ attempt = 2
    /\ \A W \in Widths : Filter(W).seed = SeedSchedule[2].value /\ Frame(W).ret

\* a < b on 64-bit words
Less64(a, b) ==
    LET d == {i \in 1..8 : a[i] # b[i]}
    IN  /\ d # {}
        /\ LET m == CHOOSE i \in d : \A j \in d : j <= i IN a[m] < b[m]

\* index h lies in block i of the slot array
InBlock(h, i, blockLength) ==
    /\ ~Less64(h, Mul64(ToWord(i), blockLength))
    /\ Less64(h, Mul64(ToWord(i + 1), blockLength))

\* the indices of the probe lie each in its own block
ProbeInBlocks ==
    /\ InBlock(probe.h0, 0, probe.blockLength)
    /\ InBlock(probe.h1, 1, probe.blockLength)
    /\ InBlock(probe.h2, 2, probe.blockLength)

\* contain and the two helpers of populate give the indices of the probe
ProbeSameIndices ==
    LET filter == [seed |-> probe.seed, blockLength |-> FromWord(probe.blockLength),
                   fingerprints |-> NULL]
        h == [h0 |-> FromWord(probe.h0), h1 |-> FromWord(probe.h1),
              h2 |-> FromWord(probe.h2)]
        full == xor_get_h0_h1_h2(ToWord(probe.key), filter)
        c == contain_index(filter, [call0 EXCEPT !.hash = probe.hash]).call
    IN  /\ xor_get_just_h0_h1_h2(probe.hash, filter) = h
        /\ full = [h |-> probe.hash, h0 |-> h.h0, h1 |-> h.h1, h2 |-> h.h2]
        /\ [h0 |-> c.h0, h1 |-> c.h1, h2 |-> c.h2] = h

\* the slot array of the block length has at most 2^32 slots
SmallBlocks == Less64(Mul64(ToWord(3), probe.blockLength), <<1, 0, 0, 0, 1, 0, 0, 0>>)

\* C16: for every hash and every block length that allocate gives, index i
\* lies in block i, i * blockLength <= h_i < (i + 1) * blockLength, so the
\* three are distinct and inside the slot array; contain and the two index
\* helpers of populate give the same three indices.
IndexRanges ==
    probe # probe0 =>
        /\ ProbeInBlocks
        /\ probe.h0 # probe.h1 /\ probe.h1 # probe.h2 /\ probe.h0 # probe.h2
        /\ Less64(probe.h2, Mul64(ToWord(3), probe.blockLength))
        /\ SmallBlocks => ProbeSameIndices

\* the same for the block lengths whose slot array has at most 2^32 slots
IndexRangesSmall == SmallBlocks => IndexRanges

\* a slot index waiting in Q whose count is 0
Stale(W, q) == At(Frame(W).sets, Frame(W).Q[q]).count = 0

\* C17 as stated: a slot index can be pushed onto Q more than once in an
\* attempt, and the entries that the test count == 0 discards at pop time
\* are such entries, pushed again after an earlier push.
StaleIsRepeat ==
    \A W \in Widths :
        Frame(W).pc = "peel" =>
            \A q \in 1..Len(Frame(W).Q) : Stale(W, q) => Frame(W).Q[q] \in pushes.again

\* C17: within an attempt no slot index is pushed onto Q twice, and none is
\* in Q twice; an index is pushed by the scan with count 1 or by the turn
\* that takes its count from 2 to 1, and it is stale at its pop when a turn
\* in between has taken its count to 0; the turn that pops a stale index
\* removes it from Q and changes neither sets nor the stack.
StaleEntries ==
    /\ [](pushes.again = {})
    /\ [](\A W \in Widths :
            Frame(W).pc = "peel" =>
                /\ \A a, b \in 1..Len(Frame(W).Q) :
                     Frame(W).Q[a] = Frame(W).Q[b] => a = b
                /\ \A q \in 1..Len(Frame(W).Q) : Frame(W).Q[q] \in pushes.once)
    /\ [][\A W \in Widths :
            (Frame(W).pc = "peel" /\ machine'[W].frame.pc = "peel"
                                   /\ machine' # machine) =>
                LET fr == Frame(W)
                    to == machine'[W].frame
                IN  /\ \A i \in 1..Len(fr.sets) : to.sets[i].count <= fr.sets[i].count
                    /\ \A q \in Len(fr.Q)..Len(to.Q) :
                         /\ At(fr.sets, to.Q[q]).count = 2
                         /\ At(to.sets, to.Q[q]).count = 1
                    /\ Stale(W, Len(fr.Q)) =>
                         /\ to.sets = fr.sets
                         /\ to.stack = fr.stack
                         /\ to.Q = SubSeq(fr.Q, 1, Len(fr.Q) - 1)]_vars

\* the index about to be popped is stale: its key was peeled through another
\* of its slots, and it was pushed once
StaleEntriesWitness ==
    \A W \in Widths :
        /\ Frame(W).pc = "peel"
        /\ Len(Frame(W).Q) > 0
        /\ Stale(W, Len(Frame(W).Q))
        /\ Len(Frame(W).stack) >= 1
        /\ Frame(W).Q[Len(Frame(W).Q)] \in pushes.once \ pushes.again

\* C18: for distinct keys, at every point of every attempt Q holds at most
\* 3 * blockLength entries, the size it was allocated with, and the stack at
\* most size entries; every entry of Q and every index on the stack is an
\* index of the slot array.
ScratchBounds ==
    \A W \in Widths :
        (Frame(W).pc \in {"peel", "assign"} /\ Distinct(Frame(W).keys)) =>
            /\ Len(Frame(W).Q) <= 3 * Filter(W).blockLength
            /\ Len(Frame(W).Q) <= Frame(W).arrayLength
            /\ Len(Frame(W).stack) <= Frame(W).size
            /\ \A q \in 1..Len(Frame(W).Q) : Frame(W).Q[q] \in Slots(W)
            /\ \A i \in 1..Len(Frame(W).stack) : Frame(W).stack[i].index \in Slots(W)

\* the stack is full, all three keys on it, and Q still holds entries
ScratchBoundsWitness ==
    \A W \in Widths :
        /\ Frame(W).pc = "peel"
        /\ Distinct(Frame(W).keys)
        /\ Frame(W).size = 3
        /\ Len(Frame(W).stack) = Frame(W).size
        /\ Len(Frame(W).Q) >= 3

\* every key of the set populated last on this slot array is found
EarlierKeysFound(W) ==
    prev # << >> =>
        \A i \in 1..Len(prev[1]) : xor_contain(W, prev[1][i], Filter(W))

\* C19 as stated: when populate returns false the seed, blockLength and
\* every slot are as before the call, and the keys of an earlier successful
\* populate are still found.
UnchangedOnError ==
    \A W \in Widths :
        Frame(W).pc = "fail" => Filter(W) = before[W] /\ EarlierKeysFound(W)

\* the set populated last peels under the first seed of the schedule, so
\* the call that populated it succeeded in its first attempt
EarlierFirstAttempt(W) ==
    /\ prev # << >>
    /\ LET f == [Filter(W) EXCEPT !.seed = SeedSchedule[1].value]
           fr == [frame0 EXCEPT !.keys = prev[1], !.size = Len(prev[1]),
                                !.arrayLength = f.blockLength * 3]
       IN  Len(PeelAll(f, populate_fill(f, fr).frame).stack) = fr.size

\* C19: when populate returns false, blockLength and every slot are as
\* before the call and the seed is the first number of the seed schedule,
\* whatever it was before; the keys of an earlier successful populate are
\* still found if that call succeeded in its first attempt, under that seed.
FailedPopulate ==
    \A W \in Widths :
        Frame(W).pc = "fail" =>
            /\ ~Frame(W).ret
            /\ Filter(W) = [before[W] EXCEPT !.seed = SeedSchedule[1].value]
            /\ EarlierFirstAttempt(W) => EarlierKeysFound(W)

\* populate returns false on a filter that an earlier call populated in its
\* second attempt: the seed is no longer that call's, and a key of its set
\* is not found any more
FailedPopulateWitness ==
    /\ AllAt("fail")
    /\ prev # << >>
    /\ \A W \in Widths :
          /\ before[W].seed = SeedSchedule[2].value
          /\ Filter(W).seed # before[W].seed
    /\ \E W \in Widths : ~EarlierKeysFound(W)

====
